---- MODULE Spec2Model ----
(***************************************************************************)
(* Model of the `ans` pallet (pallets/ans/src/lib.rs): a name -> owner     *)
(* registry with a fee-gated `reserve` call and an owner-only              *)
(* `transfer_to` call.  Every dispatchable is one atomic step.             *)
(***************************************************************************)
EXTENDS Integers, Sequences, FiniteSets, TLC

\* ---------------------------------------------------------------- bounds
\* Longest raw `name: Vec<u8>` argument handed to a call.
NameLenBound == 2
\* Largest configured T::MaxLength.
MaxLengthBound == 1
\* Largest configured T::MinLength.
MinLengthBound == 2
\* Largest genesis reservation_fee.
FeeBound == 1
\* Largest initial free balance of an account.
BalanceBound == 2
\* Longest emitted-event log explored.
EventsBound == 3

\* ---------------------------------------------------------------- values
AccountOrder == <<"alice", "bob", "carol">>
Accounts == {AccountOrder[i] : i \in DOMAIN AccountOrder}
\* One byte value: at these bounds names are told apart by their length.
Bytes == {1}
None == "None"

RECURSIVE VecsOfLen(_)
VecsOfLen(k) ==
    IF k = 0 THEN {<<>>}
    ELSE {Append(v, b) : v \in VecsOfLen(k - 1), b \in Bytes}

\* Every raw byte vector a caller may pass as `name`.
Names == UNION {VecsOfLen(k) : k \in 0..NameLenBound}

VARIABLES
    AnsOf,               \* StorageMap name -> owner (a partial map)
    ReservationFee,      \* StorageValue, ValueQuery
    ReservationAccount,  \* StorageValue, OptionQuery
    balances,            \* free balance of every account (T::Currency)
    events,              \* deposited events, oldest first
    MinLength,           \* T::MinLength
    MaxLength,           \* T::MaxLength
    genesis,             \* the GenesisConfig the chain was built from
    transfers,           \* transfers the currency has completed, oldest first
    last                 \* the last dispatched call: which one, its signed
                         \* origin and its DispatchResult

vars == <<AnsOf, ReservationFee, ReservationAccount, balances, events,
          MinLength, MaxLength, genesis, transfers, last>>

\* ---------------------------------------------------------------- events
Reserved(who, name) == [kind |-> "Reserved", who |-> who, name |-> name]

Transferred(from, to, name) ==
    [kind |-> "Transferred", from |-> from, to |-> to, name |-> name]

deposit_event(log, e) == Append(log, e)

\* ---------------------------------------------------------------- storage
contains_key(map, key) == key \in DOMAIN map

get(map, key) == IF key \in DOMAIN map THEN map[key] ELSE None

\* insert that drops every other entry of the map.
insert_only(map, key, value) == [k \in {key} |-> value]

insert(map, key, value) ==
    [k \in (DOMAIN map) \cup {key} |-> IF k = key THEN value ELSE map[k]]

\* try_into that also refuses a vector of exactly the maximum length.
try_into_strict(name) ==
    IF Len(name) < MaxLength
    THEN [ok |-> TRUE, value |-> name]
    ELSE [ok |-> FALSE, value |-> <<>>]

\* name.clone().try_into(): a BoundedVec<u8, MaxLength> holding the same
\* bytes, or Err when the vector is longer than the bound.
try_into(name) ==
    IF Len(name) <= MaxLength
    THEN [ok |-> TRUE, value |-> name]
    ELSE [ok |-> FALSE, value |-> <<>>]

\* ---------------------------------------------------------------- currency
\* The host's value-transfer primitive, ExistenceRequirement::AllowDeath:
\* fails when the sender cannot cover the amount, otherwise debits the
\* sender and then credits the receiver.
can_transfer(bal, from, value) == bal[from] >= value

transfer(bal, from, to, value) ==
    LET debited == [bal EXCEPT ![from] = @ - value]
    IN  [debited EXCEPT ![to] = @ + value]

\* The currency's record of a transfer that returned Ok.
completed(log, from, to, value) ==
    Append(log, [from |-> from, to |-> to, amount |-> value])

\* ---------------------------------------------------------------- genesis
\* GenesisConfig::build: the fee is always put, the account only if Some.
build_fee(g) == g.reservation_fee

\* build_account that never stores the configured account.
build_account_ignored(g) == None

build_account(g) ==
    IF g.reservation_account # None THEN g.reservation_account ELSE None

Init ==
    /\ genesis \in [reservation_fee : 0..FeeBound,
                    reservation_account : Accounts \cup {None}]
    /\ ReservationFee = build_fee(genesis)
    /\ ReservationAccount = build_account(genesis)
    /\ AnsOf = <<>>
    /\ balances \in [Accounts -> 0..BalanceBound]
    \* accounts are interchangeable: genesis balances are enumerated up to
    \* a renaming of the accounts, richest first
    /\ \A i, j \in DOMAIN AccountOrder :
          i < j => balances[AccountOrder[i]] >= balances[AccountOrder[j]]
    /\ events = <<>>
    /\ transfers = <<>>
    /\ MinLength \in 0..MinLengthBound
    /\ MaxLength \in 0..MaxLengthBound
    /\ last = [op |-> "none", who |-> None, result |-> "none"]

\* ---------------------------------------------------------------- reserve
\* reserve_result with the ReservationAccount lookup made before the name
\* is looked at.
reserve_result_account_first(sender, name) ==
    LET bounded_name == try_into(name) IN
    IF ReservationAccount = None THEN "ReserveAccountNotConfigured"
    ELSE IF ~bounded_name.ok THEN "TooLong"
    ELSE IF ~(Len(bounded_name.value) >= MinLength) THEN "TooShort"
    ELSE IF contains_key(AnsOf, bounded_name.value) THEN "AlreadyReserved"
    ELSE IF ~can_transfer(balances, sender, ReservationFee)
         THEN "TransferError"
    ELSE "Ok"

\* reserve_result that lets the current owner reserve their name again.
reserve_result_owner_may_repeat(sender, name) ==
    LET bounded_name == try_into(name) IN
    IF ~bounded_name.ok THEN "TooLong"
    ELSE IF ~(Len(bounded_name.value) >= MinLength) THEN "TooShort"
    ELSE IF /\ contains_key(AnsOf, bounded_name.value)
            /\ get(AnsOf, bounded_name.value) # sender
         THEN "AlreadyReserved"
    ELSE IF ReservationAccount = None THEN "ReserveAccountNotConfigured"
    ELSE IF ~can_transfer(balances, sender, ReservationFee)
         THEN "TransferError"
    ELSE "Ok"

\* reserve_result with the minimum-length check made on the raw name
\* before the bounded conversion.
reserve_result_min_first(sender, name) ==
    LET bounded_name == try_into(name) IN
    IF ~(Len(name) >= MinLength) THEN "TooShort"
    ELSE IF ~bounded_name.ok THEN "TooLong"
    ELSE IF contains_key(AnsOf, bounded_name.value) THEN "AlreadyReserved"
    ELSE IF ReservationAccount = None THEN "ReserveAccountNotConfigured"
    ELSE IF ~can_transfer(balances, sender, ReservationFee)
         THEN "TransferError"
    ELSE "Ok"

\* reserve_result without the minimum-length check.
reserve_result_no_min(sender, name) ==
    LET bounded_name == try_into(name) IN
    IF ~bounded_name.ok THEN "TooLong"
    ELSE IF contains_key(AnsOf, bounded_name.value) THEN "AlreadyReserved"
    ELSE IF ReservationAccount = None THEN "ReserveAccountNotConfigured"
    ELSE IF ~can_transfer(balances, sender, ReservationFee)
         THEN "TransferError"
    ELSE "Ok"

\* reserve_result without the lookup of an existing Registration.
reserve_result_overwrite(sender, name) ==
    LET bounded_name == try_into(name) IN
    IF ~bounded_name.ok THEN "TooLong"
    ELSE IF ~(Len(bounded_name.value) >= MinLength) THEN "TooShort"
    ELSE IF ReservationAccount = None THEN "ReserveAccountNotConfigured"
    ELSE IF ~can_transfer(balances, sender, ReservationFee)
         THEN "TransferError"
    ELSE "Ok"

\* reserve_result with the fee transfer made under
\* ExistenceRequirement::KeepAlive: a payment that would empty the sender's
\* account is refused.
reserve_result_keep_alive(sender, name) ==
    LET bounded_name == try_into(name) IN
    IF ~bounded_name.ok THEN "TooLong"
    ELSE IF ~(Len(bounded_name.value) >= MinLength) THEN "TooShort"
    ELSE IF contains_key(AnsOf, bounded_name.value) THEN "AlreadyReserved"
    ELSE IF ReservationAccount = None THEN "ReserveAccountNotConfigured"
    ELSE IF \/ ~can_transfer(balances, sender, ReservationFee)
            \/ (ReservationFee > 0 /\ balances[sender] = ReservationFee)
         THEN "TransferError"
    ELSE "Ok"

\* The DispatchResult of reserve(origin = Signed(sender), name).
reserve_result(sender, name) ==
    LET bounded_name == try_into(name) IN
    IF ~bounded_name.ok THEN "TooLong"
    ELSE IF ~(Len(bounded_name.value) >= MinLength) THEN "TooShort"
    ELSE IF contains_key(AnsOf, bounded_name.value) THEN "AlreadyReserved"
    ELSE IF ReservationAccount = None THEN "ReserveAccountNotConfigured"
    ELSE IF ~can_transfer(balances, sender, ReservationFee)
         THEN "TransferError"
    ELSE "Ok"

\* reserve with the Registration written before the fee transfer is tried.
reserve_insert_before_fee(sender, name) ==
    LET r == reserve_result(sender, name) IN
    /\ last' = [op |-> "reserve", who |-> sender, result |-> r]
    /\ IF r = "Ok"
       THEN /\ balances' = transfer(balances, sender, ReservationAccount,
                                    ReservationFee)
            /\ AnsOf' = insert(AnsOf, try_into(name).value, sender)
            /\ events' = deposit_event(events, Reserved(sender, name))
            /\ transfers' = completed(transfers, sender, ReservationAccount,
                                      ReservationFee)
       ELSE IF r = "TransferError"
       THEN /\ AnsOf' = insert(AnsOf, try_into(name).value, sender)
            /\ UNCHANGED <<balances, events, transfers>>
       ELSE UNCHANGED <<balances, AnsOf, events, transfers>>
    /\ UNCHANGED <<ReservationFee, ReservationAccount, MinLength, MaxLength,
                   genesis>>

\* reserve with the result of the fee transfer dropped instead of
\* propagated.
reserve_ignore_transfer_error(sender, name) ==
    LET r0 == reserve_result(sender, name)
        r == IF r0 = "TransferError" THEN "Ok" ELSE r0
    IN
    /\ last' = [op |-> "reserve", who |-> sender, result |-> r]
    /\ IF r = "Ok"
       THEN /\ balances' = IF r0 = "Ok"
                           THEN transfer(balances, sender, ReservationAccount,
                                         ReservationFee)
                           ELSE balances
            /\ AnsOf' = insert(AnsOf, try_into(name).value, sender)
            /\ events' = deposit_event(events, Reserved(sender, name))
            /\ transfers' = IF r0 = "Ok"
                            THEN completed(transfers, sender,
                                           ReservationAccount, ReservationFee)
                            ELSE transfers
       ELSE UNCHANGED <<balances, AnsOf, events, transfers>>
    /\ UNCHANGED <<ReservationFee, ReservationAccount, MinLength, MaxLength,
                   genesis>>

\* reserve with sender and receiver of the fee transfer swapped.
reserve_fee_swapped(sender, name) ==
    LET r == reserve_result(sender, name) IN
    /\ last' = [op |-> "reserve", who |-> sender, result |-> r]
    /\ IF r = "Ok"
       THEN /\ balances' = transfer(balances, ReservationAccount, sender,
                                    ReservationFee)
            /\ AnsOf' = insert(AnsOf, try_into(name).value, sender)
            /\ events' = deposit_event(events, Reserved(sender, name))
            /\ transfers' = completed(transfers, ReservationAccount, sender,
                                      ReservationFee)
       ELSE UNCHANGED <<balances, AnsOf, events, transfers>>
    /\ UNCHANGED <<ReservationFee, ReservationAccount, MinLength, MaxLength,
                   genesis>>

reserve(sender, name) ==
    LET r == reserve_result(sender, name) IN
    /\ last' = [op |-> "reserve", who |-> sender, result |-> r]
    /\ IF r = "Ok"
       THEN /\ balances' = transfer(balances, sender, ReservationAccount,
                                    ReservationFee)
            /\ AnsOf' = insert(AnsOf, try_into(name).value, sender)
            /\ events' = deposit_event(events, Reserved(sender, name))
            /\ transfers' = completed(transfers, sender, ReservationAccount,
                                      ReservationFee)
       ELSE UNCHANGED <<balances, AnsOf, events, transfers>>
    /\ UNCHANGED <<ReservationFee, ReservationAccount, MinLength, MaxLength,
                   genesis>>

\* ---------------------------------------------------------------- transfer_to
\* transfer_to_result with reserve's minimum-length check copied in.
transfer_to_result_min_length(sender, name, to) ==
    LET bounded_name == try_into(name) IN
    IF ~bounded_name.ok THEN "TooLong"
    ELSE IF ~(Len(bounded_name.value) >= MinLength) THEN "TooShort"
    ELSE LET existing == get(AnsOf, bounded_name.value) IN
         IF existing = None THEN "NotFound"
         ELSE IF ~(sender = existing) THEN "NotOwner"
         ELSE "Ok"

\* transfer_to_result without the comparison of sender and current owner.
transfer_to_result_any_caller(sender, name, to) ==
    LET bounded_name == try_into(name) IN
    IF ~bounded_name.ok THEN "TooLong"
    ELSE LET existing == get(AnsOf, bounded_name.value) IN
         IF existing = None THEN "NotFound"
         ELSE "Ok"

\* The DispatchResult of transfer_to(origin = Signed(sender), name, to).
transfer_to_result(sender, name, to) ==
    LET bounded_name == try_into(name) IN
    IF ~bounded_name.ok THEN "TooLong"
    ELSE LET existing == get(AnsOf, bounded_name.value) IN
         IF existing = None THEN "NotFound"
         ELSE IF ~(sender = existing) THEN "NotOwner"
         ELSE "Ok"

\* transfer_to with `from` and `to` of the event swapped.
transfer_to_event_swapped(sender, name, to) ==
    LET r == transfer_to_result(sender, name, to) IN
    /\ last' = [op |-> "transfer_to", who |-> sender, result |-> r]
    /\ IF r = "Ok"
       THEN /\ AnsOf' = insert(AnsOf, try_into(name).value, to)
            /\ events' = deposit_event(events, Transferred(to, sender, name))
       ELSE UNCHANGED <<AnsOf, events>>
    /\ UNCHANGED <<balances, ReservationFee, ReservationAccount, MinLength,
                   MaxLength, genesis, transfers>>

\* transfer_to that writes the sender back as the owner.
transfer_to_keeps_owner(sender, name, to) ==
    LET r == transfer_to_result(sender, name, to) IN
    /\ last' = [op |-> "transfer_to", who |-> sender, result |-> r]
    /\ IF r = "Ok"
       THEN /\ AnsOf' = insert(AnsOf, try_into(name).value, sender)
            /\ events' = deposit_event(events, Transferred(sender, to, name))
       ELSE UNCHANGED <<AnsOf, events>>
    /\ UNCHANGED <<balances, ReservationFee, ReservationAccount, MinLength,
                   MaxLength, genesis, transfers>>

\* transfer_to that reads the Registration with take(), which removes it,
\* and writes it back only on success.
transfer_to_take(sender, name, to) ==
    LET r == transfer_to_result(sender, name, to) IN
    /\ last' = [op |-> "transfer_to", who |-> sender, result |-> r]
    /\ IF r = "Ok"
       THEN /\ AnsOf' = insert(AnsOf, try_into(name).value, to)
            /\ events' = deposit_event(events, Transferred(sender, to, name))
       ELSE IF r = "NotOwner"
       THEN /\ AnsOf' = [k \in (DOMAIN AnsOf) \ {try_into(name).value}
                           |-> AnsOf[k]]
            /\ UNCHANGED events
       ELSE UNCHANGED <<AnsOf, events>>
    /\ UNCHANGED <<balances, ReservationFee, ReservationAccount, MinLength,
                   MaxLength, genesis, transfers>>

\* transfer_to that also collects the reservation fee when the sender
\* can pay it.
transfer_to_charges_fee(sender, name, to) ==
    LET r == transfer_to_result(sender, name, to) IN
    /\ last' = [op |-> "transfer_to", who |-> sender, result |-> r]
    /\ IF r = "Ok"
       THEN /\ AnsOf' = insert(AnsOf, try_into(name).value, to)
            /\ events' = deposit_event(events, Transferred(sender, to, name))
            /\ balances' =
                  IF /\ ReservationAccount # None
                     /\ can_transfer(balances, sender, ReservationFee)
                  THEN transfer(balances, sender, ReservationAccount,
                                ReservationFee)
                  ELSE balances
       ELSE UNCHANGED <<AnsOf, events, balances>>
    /\ UNCHANGED <<ReservationFee, ReservationAccount, MinLength,
                   MaxLength, genesis, transfers>>

\* transfer_to that deposits no event.
transfer_to_no_event(sender, name, to) ==
    LET r == transfer_to_result(sender, name, to) IN
    /\ last' = [op |-> "transfer_to", who |-> sender, result |-> r]
    /\ IF r = "Ok"
       THEN /\ AnsOf' = insert(AnsOf, try_into(name).value, to)
            /\ UNCHANGED events
       ELSE UNCHANGED <<AnsOf, events>>
    /\ UNCHANGED <<balances, ReservationFee, ReservationAccount, MinLength,
                   MaxLength, genesis, transfers>>

transfer_to(sender, name, to) ==
    LET r == transfer_to_result(sender, name, to) IN
    /\ last' = [op |-> "transfer_to", who |-> sender, result |-> r]
    /\ IF r = "Ok"
       THEN /\ AnsOf' = insert(AnsOf, try_into(name).value, to)
            /\ events' = deposit_event(events, Transferred(sender, to, name))
       ELSE UNCHANGED <<AnsOf, events>>
    /\ UNCHANGED <<balances, ReservationFee, ReservationAccount, MinLength,
                   MaxLength, genesis, transfers>>

\* ---------------------------------------------------------------- system
\* The host applies one call at a time; the explored event log is capped.
Next ==
    \/ \E sender \in Accounts, name \in Names :
          reserve(sender, name) /\ Len(events') <= EventsBound
    \/ \E sender \in Accounts, name \in Names, to \in Accounts :
          transfer_to(sender, name, to) /\ Len(events') <= EventsBound

Spec == Init /\ [][Next]_vars

Last(seq) == seq[Len(seq)]

\* The latest deposited event that names n, None if there is none.
LastEventOn(n) ==
    LET idx == {i \in 1..Len(events) : events[i].name = n} IN
    IF idx = {} THEN [kind |-> None]
    ELSE events[CHOOSE i \in idx : \A j \in idx : j <= i]

\* The Reserved events of the log, oldest first.
ReservedEvents == SelectSeq(events, LAMBDA e : e.kind = "Reserved")

\* The registry an observer rebuilds from an event log, starting from the
\* empty map: Reserved sets name -> who, Transferred sets name -> to.
RECURSIVE Replay(_)
Replay(log) ==
    IF log = <<>> THEN <<>>
    ELSE LET before == Replay(SubSeq(log, 1, Len(log) - 1))
             e == log[Len(log)]
             owner == IF e.kind = "Reserved" THEN e.who ELSE e.to
         IN  [k \in (DOMAIN before) \cup {e.name} |->
                 IF k = e.name THEN owner ELSE before[k]]

Errors == {"TooLong", "TooShort", "AlreadyReserved",
           "ReserveAccountNotConfigured", "TransferError", "NotFound",
           "NotOwner"}

TypeOK ==
    /\ DOMAIN AnsOf \subseteq Names
    /\ \A n \in DOMAIN AnsOf : AnsOf[n] \in Accounts
    /\ balances \in [Accounts -> Nat]
    /\ ReservationFee \in 0..FeeBound
    /\ ReservationAccount \in Accounts \cup {None}
    /\ last.result \in Errors \cup {"Ok", "none"}

\* ================================================================ claims

\* C1: every reserve or transfer_to call that returns an error leaves the
\* registry, every balance, ReservationFee, ReservationAccount and the
\* event log exactly as they were before the call.
C1_ErrorLeavesStateUnchanged ==
    [][last'.result \in Errors =>
          UNCHANGED <<AnsOf, balances, ReservationFee, ReservationAccount,
                      events>>]_vars

\* A call failed on the fee transfer in a state that already holds a
\* Registration and an event.
C1_Witness ==
    /\ last.op = "reserve"
    /\ last.result = "TransferError"
    /\ AnsOf # <<>>
    /\ events # <<>>

\* C2 as stated: a successful reserve debits exactly ReservationFee from
\* the caller and credits exactly ReservationFee to ReservationAccount, for
\* every caller (ReservationAccount itself included), and changes no other
\* balance.
C2_Original ==
    [][(last'.op = "reserve" /\ last'.result = "Ok") =>
          LET c == last'.who IN
          /\ balances'[c] = balances[c] - ReservationFee
          /\ balances'[ReservationAccount] =
                balances[ReservationAccount] + ReservationFee
          /\ \A a \in Accounts \ {c, ReservationAccount} :
                balances'[a] = balances[a]]_vars

\* C2 amended: a successful reserve by a caller other than
\* ReservationAccount debits exactly ReservationFee from the caller, credits
\* exactly ReservationFee to ReservationAccount and changes no other
\* balance; a successful reserve by ReservationAccount itself changes no
\* balance at all.
C2_FeeMoved ==
    [][(last'.op = "reserve" /\ last'.result = "Ok") =>
          LET c == last'.who IN
          IF c # ReservationAccount
          THEN /\ balances'[c] = balances[c] - ReservationFee
               /\ balances'[ReservationAccount] =
                     balances[ReservationAccount] + ReservationFee
               /\ \A a \in Accounts \ {c, ReservationAccount} :
                     balances'[a] = balances[a]
          ELSE balances' = balances]_vars

\* A caller other than ReservationAccount has just paid a non-zero fee.
C2_Witness ==
    /\ last.op = "reserve"
    /\ last.result = "Ok"
    /\ last.who # ReservationAccount
    /\ ReservationFee > 0
    /\ Len(events) = 1
    /\ balances[ReservationAccount] >= ReservationFee

\* C3: reserve of a free name of valid length, with ReservationAccount
\* set, by a caller whose balance is below ReservationFee fails with the
\* transfer error, creates no Registration, emits no event and changes no
\* balance.
C3_InsufficientBalance ==
    [][\A c \in Accounts, n \in Names :
          (/\ last'.op = "reserve" /\ last'.who = c
           /\ balances[c] < ReservationFee
           /\ Len(n) >= MinLength /\ Len(n) <= MaxLength
           /\ n \notin DOMAIN AnsOf
           /\ ReservationAccount # None
           /\ reserve(c, n)) =>
             /\ last'.result = "TransferError"
             /\ n \notin DOMAIN AnsOf'
             /\ events' = events
             /\ balances' = balances]_vars

\* The very first call is refused for lack of funds.
C3_Witness ==
    /\ last.op = "reserve"
    /\ last.result = "TransferError"
    /\ balances[last.who] < ReservationFee
    /\ AnsOf = <<>>

\* C4 as stated: with ReservationAccount unset every reserve call, whatever
\* the caller, the name's length and its registration, fails with
\* ReserveAccountNotConfigured, moves no fee and creates no Registration;
\* from a genesis without a reservation account the registry stays empty.
C4_Original ==
    /\ [][\A c \in Accounts, n \in Names :
             (/\ ReservationAccount = None
              /\ last'.op = "reserve" /\ last'.who = c
              /\ reserve(c, n)) =>
                /\ last'.result = "ReserveAccountNotConfigured"
                /\ balances' = balances
                /\ AnsOf' = AnsOf]_vars
    /\ [](genesis.reservation_account = None => AnsOf = <<>>)

\* C4 amended: with ReservationAccount unset every reserve call fails,
\* moves no fee and creates no Registration; the error is TooLong for a
\* name longer than MaxLength, otherwise TooShort for a name shorter than
\* MinLength, otherwise ReserveAccountNotConfigured; from a genesis without
\* a reservation account the registry stays empty.
C4_AccountUnset ==
    /\ [][\A c \in Accounts, n \in Names :
             (/\ ReservationAccount = None
              /\ last'.op = "reserve" /\ last'.who = c
              /\ reserve(c, n)) =>
                /\ last'.result =
                      IF Len(n) > MaxLength THEN "TooLong"
                      ELSE IF Len(n) < MinLength THEN "TooShort"
                      ELSE "ReserveAccountNotConfigured"
                /\ balances' = balances
                /\ AnsOf' = AnsOf]_vars
    /\ [](genesis.reservation_account = None => AnsOf = <<>>)

\* A caller who could pay the fee is refused because no account is set.
C4_Witness ==
    /\ genesis.reservation_account = None
    /\ ReservationAccount = None
    /\ last.op = "reserve"
    /\ last.result = "ReserveAccountNotConfigured"
    /\ balances[last.who] >= ReservationFee
    /\ ReservationFee > 0

\* C5 as stated: reserving a free name of valid length succeeds, adds
\* exactly the Registration name -> caller, leaves every other Registration
\* as it was and appends exactly the event Reserved{who = caller, name}.
C5_Original ==
    [][\A c \in Accounts, n \in Names :
          (/\ last'.op = "reserve" /\ last'.who = c
           /\ n \notin DOMAIN AnsOf
           /\ Len(n) >= MinLength /\ Len(n) <= MaxLength
           /\ reserve(c, n)) =>
             /\ last'.result = "Ok"
             /\ DOMAIN AnsOf' = DOMAIN AnsOf \cup {n}
             /\ AnsOf'[n] = c
             /\ \A m \in DOMAIN AnsOf : AnsOf'[m] = AnsOf[m]
             /\ Len(events') = Len(events) + 1
             /\ SubSeq(events', 1, Len(events)) = events
             /\ Last(events') = [kind |-> "Reserved", who |-> c, name |-> n]
      ]_vars

\* C5 amended: reserving a free name of valid length, while
\* ReservationAccount is set and the caller's balance is at least
\* ReservationFee, succeeds, adds exactly the Registration name -> caller,
\* leaves every other Registration as it was and appends exactly the event
\* Reserved{who = caller, name}.
C5_ReserveSucceeds ==
    [][\A c \in Accounts, n \in Names :
          (/\ last'.op = "reserve" /\ last'.who = c
           /\ n \notin DOMAIN AnsOf
           /\ Len(n) >= MinLength /\ Len(n) <= MaxLength
           /\ ReservationAccount # None
           /\ balances[c] >= ReservationFee
           /\ reserve(c, n)) =>
             /\ last'.result = "Ok"
             /\ DOMAIN AnsOf' = DOMAIN AnsOf \cup {n}
             /\ AnsOf'[n] = c
             /\ \A m \in DOMAIN AnsOf : AnsOf'[m] = AnsOf[m]
             /\ Len(events') = Len(events) + 1
             /\ SubSeq(events', 1, Len(events)) = events
             /\ Last(events') = [kind |-> "Reserved", who |-> c, name |-> n]
      ]_vars

\* A second name has just been reserved next to an existing Registration.
C5_Witness ==
    /\ last.op = "reserve"
    /\ last.result = "Ok"
    /\ Cardinality(DOMAIN AnsOf) = 2
    /\ Len(events) = 2
    /\ Last(events).kind = "Reserved"
    /\ Last(events).who = last.who
    /\ AnsOf[Last(events).name] = last.who

\* C6: reserve on a name that already has a Registration fails with
\* AlreadyReserved for every caller, the owner included, whether or not
\* the caller could pay, and the registry is unchanged.
C6_AlreadyReserved ==
    [][\A c \in Accounts, n \in Names :
          (/\ last'.op = "reserve" /\ last'.who = c
           /\ n \in DOMAIN AnsOf
           /\ reserve(c, n)) =>
             /\ last'.result = "AlreadyReserved"
             /\ AnsOf' = AnsOf]_vars

\* The owner of the only Registration, able to pay again, is refused.
C6_Witness ==
    /\ last.op = "reserve"
    /\ last.result = "AlreadyReserved"
    /\ Cardinality(DOMAIN AnsOf) = 1
    /\ \A n \in DOMAIN AnsOf : AnsOf[n] = last.who
    /\ balances[last.who] >= ReservationFee

\* C7: transfer_to by the current owner of n succeeds for every target
\* account, makes the target the owner of n and appends exactly the event
\* Transferred{from = caller, to, name = n}; no balance is needed or moved.
C7_OwnerTransfers ==
    [][\A c \in Accounts, n \in Names, to \in Accounts :
          (/\ last'.op = "transfer_to" /\ last'.who = c
           /\ n \in DOMAIN AnsOf
           /\ AnsOf[n] = c
           /\ transfer_to(c, n, to)) =>
             /\ last'.result = "Ok"
             /\ DOMAIN AnsOf' = DOMAIN AnsOf
             /\ AnsOf'[n] = to
             /\ Len(events') = Len(events) + 1
             /\ SubSeq(events', 1, Len(events)) = events
             /\ Last(events') = [kind |-> "Transferred", from |-> c,
                                 to |-> to, name |-> n]
             /\ balances' = balances]_vars

\* An owner without any balance has just handed a name to another account.
C7_Witness ==
    /\ last.op = "transfer_to"
    /\ last.result = "Ok"
    /\ balances[last.who] = 0
    /\ Last(events).kind = "Transferred"
    /\ Last(events).from = last.who
    /\ Last(events).to # last.who
    /\ AnsOf[Last(events).name] = Last(events).to

\* C8 as stated: once transfer_to(owner, n, to) has succeeded, for any
\* account `to`, the next transfer_to on n by that old owner, with no other
\* successful operation on n in between, fails with NotOwner.
C8_Original ==
    [][\A c \in Accounts, n \in Names, to2 \in Accounts :
          (/\ last'.op = "transfer_to" /\ last'.who = c
           /\ LastEventOn(n).kind = "Transferred"
           /\ LastEventOn(n).from = c
           /\ transfer_to(c, n, to2)) =>
             last'.result = "NotOwner"]_vars

\* C8 amended: once transfer_to(owner, n, to) has succeeded for an account
\* `to` other than the owner, the next transfer_to on n by that old owner,
\* with no other successful operation on n in between, fails with NotOwner
\* and leaves the registry unchanged.
C8_OldOwnerRefused ==
    [][\A c \in Accounts, n \in Names, to2 \in Accounts :
          (/\ last'.op = "transfer_to" /\ last'.who = c
           /\ LastEventOn(n).kind = "Transferred"
           /\ LastEventOn(n).from = c
           /\ LastEventOn(n).to # c
           /\ transfer_to(c, n, to2)) =>
             /\ last'.result = "NotOwner"
             /\ AnsOf' = AnsOf]_vars

\* The old owner of the only Registration has just been refused.
C8_Witness ==
    /\ last.op = "transfer_to"
    /\ last.result = "NotOwner"
    /\ Cardinality(DOMAIN AnsOf) = 1
    /\ Last(events).kind = "Transferred"
    /\ Last(events).from = last.who
    /\ Last(events).to # last.who

\* C9 as stated: transfer_to on a name without a Registration, whatever
\* the name's length, fails with NotFound for every caller and target and
\* leaves the registry unchanged.
C9_Original ==
    [][\A c \in Accounts, n \in Names, to \in Accounts :
          (/\ last'.op = "transfer_to" /\ last'.who = c
           /\ n \notin DOMAIN AnsOf
           /\ transfer_to(c, n, to)) =>
             /\ last'.result = "NotFound"
             /\ AnsOf' = AnsOf]_vars

\* C9 amended: transfer_to on a name without a Registration fails for
\* every caller and target and leaves the registry unchanged; the error is
\* NotFound when the name is at most MaxLength long and TooLong when it is
\* longer.
C9_NotFound ==
    [][\A c \in Accounts, n \in Names, to \in Accounts :
          (/\ last'.op = "transfer_to" /\ last'.who = c
           /\ n \notin DOMAIN AnsOf
           /\ transfer_to(c, n, to)) =>
             /\ last'.result =
                   IF Len(n) <= MaxLength THEN "NotFound" ELSE "TooLong"
             /\ AnsOf' = AnsOf]_vars

\* A transfer of a free name is refused while another name is registered.
C9_Witness ==
    /\ last.op = "transfer_to"
    /\ last.result = "NotFound"
    /\ AnsOf # <<>>
    /\ \E n \in Names : Len(n) <= MaxLength /\ n \notin DOMAIN AnsOf

\* C10 as stated: for every configuration of MinLength and MaxLength,
\* reserve of a name shorter than MinLength fails with TooShort for every
\* caller and leaves the registry unchanged.
C10_Original ==
    [][\A c \in Accounts, n \in Names :
          (/\ last'.op = "reserve" /\ last'.who = c
           /\ Len(n) < MinLength
           /\ reserve(c, n)) =>
             /\ last'.result = "TooShort"
             /\ AnsOf' = AnsOf]_vars

\* C10 amended: reserve of a name shorter than MinLength fails for every
\* caller and leaves the registry unchanged; the error is TooShort when the
\* name is at most MaxLength long, and TooLong when it is longer than
\* MaxLength (possible only when MinLength exceeds MaxLength + 1).
C10_TooShort ==
    [][\A c \in Accounts, n \in Names :
          (/\ last'.op = "reserve" /\ last'.who = c
           /\ Len(n) < MinLength
           /\ reserve(c, n)) =>
             /\ last'.result =
                   IF Len(n) <= MaxLength THEN "TooShort" ELSE "TooLong"
             /\ AnsOf' = AnsOf]_vars

\* A caller who could pay is refused for a too-short name while the
\* registry already holds a name.
C10_Witness ==
    /\ last.op = "reserve"
    /\ last.result = "TooShort"
    /\ ReservationAccount # None
    /\ balances[last.who] >= ReservationFee
    /\ AnsOf # <<>>

\* C11: reserve of a name longer than MaxLength fails with TooLong for
\* every caller and leaves the registry unchanged; this holds also when the
\* name is shorter than MinLength, so such a name is never reported as
\* TooShort.
C11_TooLong ==
    [][\A c \in Accounts, n \in Names :
          (/\ last'.op = "reserve" /\ last'.who = c
           /\ Len(n) > MaxLength
           /\ reserve(c, n)) =>
             /\ last'.result = "TooLong"
             /\ AnsOf' = AnsOf]_vars

\* A reserve is refused with TooLong in a configuration where some name is
\* both longer than MaxLength and shorter than MinLength.
C11_Witness ==
    /\ last.op = "reserve"
    /\ last.result = "TooLong"
    /\ \E n \in Names : Len(n) > MaxLength /\ Len(n) < MinLength
    /\ ReservationAccount # None
    /\ balances[last.who] >= ReservationFee

\* C12 (I1): every registered name is at least MinLength and at most
\* MaxLength bytes long.
C12_RegisteredLengths ==
    \A n \in DOMAIN AnsOf : MinLength <= Len(n) /\ Len(n) <= MaxLength

\* A name is registered and has just been transferred, in a
\* configuration that refuses some name as too short.
C12_Witness ==
    /\ Cardinality(DOMAIN AnsOf) >= 1
    /\ MinLength >= 1
    /\ Len(events) = 3
    /\ last.op = "transfer_to"
    /\ last.result = "Ok"

\* C13: a name that has a Registration keeps one in every later state.
C13_NeverFreed ==
    [][DOMAIN AnsOf \subseteq DOMAIN AnsOf']_vars

\* A non-owner's transfer has been refused and the name is still
\* registered, after earlier reservations and transfers.
C13_Witness ==
    /\ last.op = "transfer_to"
    /\ last.result = "NotOwner"
    /\ Len(events) = 3
    /\ Cardinality(DOMAIN AnsOf) >= 1
    /\ \E i \in 1..Len(events) : events[i].kind = "Transferred"

\* C14 (I4): in any step that changes the owner of an already registered
\* name n from a to another account b, the step is a successful
\* transfer_to(caller = a, n, to = b); no reserve call and no transfer_to
\* by a non-owner changes the owner of an existing Registration.
C14_OnlyOwnerTransfers ==
    [][\A n \in DOMAIN AnsOf :
          (n \in DOMAIN AnsOf' /\ AnsOf'[n] # AnsOf[n]) =>
             /\ last'.op = "transfer_to"
             /\ last'.result = "Ok"
             /\ last'.who = AnsOf[n]
             /\ Last(events') = [kind |-> "Transferred", from |-> AnsOf[n],
                                 to |-> AnsOf'[n], name |-> n]
             /\ transfer_to(AnsOf[n], n, AnsOf'[n])]_vars

\* The owner of a freshly reserved name has handed it to another account.
C14_Witness ==
    /\ last.op = "transfer_to"
    /\ last.result = "Ok"
    /\ Len(events) = 2
    /\ events[1].kind = "Reserved"
    /\ events[2] = [kind |-> "Transferred", from |-> events[1].who,
                    to |-> AnsOf[events[1].name], name |-> events[1].name]
    /\ events[2].to # events[2].from

\* C15 (I3): the number of Registrations equals the number of completed
\* transfers and the number of Reserved events; the i-th completed transfer
\* moved exactly ReservationFee from the i-th reserver to
\* ReservationAccount, and every registered name has its Reserved event.
C15_FeePerRegistration ==
    /\ Cardinality(DOMAIN AnsOf) = Len(transfers)
    /\ Len(ReservedEvents) = Len(transfers)
    /\ \A i \in 1..Len(transfers) :
          transfers[i] = [from |-> ReservedEvents[i].who,
                          to |-> ReservationAccount,
                          amount |-> ReservationFee]
    /\ DOMAIN AnsOf = {ReservedEvents[i].name : i \in 1..Len(ReservedEvents)}

\* Two names were paid for with a non-zero fee and one changed hands.
C15_Witness ==
    /\ Len(transfers) = 2
    /\ Cardinality(DOMAIN AnsOf) = 2
    /\ Len(events) = 3
    /\ ReservationFee > 0

\* C16: of two reserve requests for the same free valid name by two
\* distinct callers the first one applied, if it can pay, succeeds, becomes
\* the owner and pays the fee; the other one, applied next, fails with
\* AlreadyReserved, pays nothing and leaves the first caller the owner.
C16_FirstReserverWins ==
    [][\A c1 \in Accounts, n \in Names :
          /\ (/\ last'.op = "reserve" /\ last'.who = c1
               /\ n \notin DOMAIN AnsOf
               /\ Len(n) >= MinLength /\ Len(n) <= MaxLength
               /\ ReservationAccount # None
               /\ balances[c1] >= ReservationFee
               /\ reserve(c1, n)) =>
                 /\ last'.result = "Ok"
                 /\ AnsOf'[n] = c1
                 /\ Len(transfers') = Len(transfers) + 1
                 /\ Last(transfers') = [from |-> c1,
                                        to |-> ReservationAccount,
                                        amount |-> ReservationFee]
          /\ \A c2 \in Accounts \ {c1} :
                (/\ last.op = "reserve" /\ last.result = "Ok"
                 /\ last.who = c1
                 /\ Last(events) = [kind |-> "Reserved", who |-> c1,
                                    name |-> n]
                 /\ last'.op = "reserve" /\ last'.who = c2
                 /\ reserve(c2, n)) =>
                   /\ last'.result = "AlreadyReserved"
                   /\ AnsOf' = AnsOf
                   /\ AnsOf'[n] = c1
                   /\ balances' = balances
                   /\ transfers' = transfers
                   /\ events' = events]_vars

\* The second of two callers who could both pay a non-zero fee has been
\* refused the name the first one holds.
C16_Witness ==
    /\ last.op = "reserve"
    /\ last.result = "AlreadyReserved"
    /\ Len(events) = 1
    /\ events[1].kind = "Reserved"
    /\ events[1].who # last.who
    /\ AnsOf[events[1].name] = events[1].who
    /\ ReservationFee > 0
    /\ balances[last.who] >= ReservationFee
    /\ Len(transfers) = 1

\* C17 as stated: reserve of a free valid name, with ReservationAccount
\* set, by a caller whose balance is exactly ReservationFee succeeds and
\* leaves the caller with balance zero.
C17_Original ==
    [][\A c \in Accounts, n \in Names :
          (/\ last'.op = "reserve" /\ last'.who = c
           /\ balances[c] = ReservationFee
           /\ ReservationAccount # None
           /\ n \notin DOMAIN AnsOf
           /\ Len(n) >= MinLength /\ Len(n) <= MaxLength
           /\ reserve(c, n)) =>
             /\ last'.result = "Ok"
             /\ balances'[c] = 0]_vars

\* C17 amended: reserve of a free valid name, with ReservationAccount set,
\* by a caller whose balance is exactly ReservationFee succeeds; it leaves
\* the caller with balance zero when the caller is not ReservationAccount,
\* and with its balance unchanged when the caller is ReservationAccount.
C17_MayEmptyAccount ==
    [][\A c \in Accounts, n \in Names :
          (/\ last'.op = "reserve" /\ last'.who = c
           /\ balances[c] = ReservationFee
           /\ ReservationAccount # None
           /\ n \notin DOMAIN AnsOf
           /\ Len(n) >= MinLength /\ Len(n) <= MaxLength
           /\ reserve(c, n)) =>
             /\ last'.result = "Ok"
             /\ balances'[c] =
                   IF c = ReservationAccount THEN balances[c] ELSE 0]_vars

\* A caller has just spent its whole balance on a non-zero fee.
C17_Witness ==
    /\ last.op = "reserve"
    /\ last.result = "Ok"
    /\ last.who # ReservationAccount
    /\ ReservationFee > 0
    /\ balances[last.who] = 0
    /\ Last(transfers) = [from |-> last.who, to |-> ReservationAccount,
                          amount |-> ReservationFee]

\* C18: in every reachable state ReservationFee is the genesis fee and
\* ReservationAccount is the genesis account, unset when the genesis names
\* none; no reserve or transfer_to call changes either.
C18_ConfigIsGenesis ==
    /\ ReservationFee = genesis.reservation_fee
    /\ genesis.reservation_account # None =>
          ReservationAccount = genesis.reservation_account
    /\ genesis.reservation_account = None => ReservationAccount = None

\* After three successful calls and a refused one the configured fee and
\* account are still in place.
C18_Witness ==
    /\ genesis.reservation_account # None
    /\ genesis.reservation_fee > 0
    /\ Len(events) = 3
    /\ last.result \in Errors

\* C19: a reserve or transfer_to call on name n neither creates nor changes
\* the Registration of any other name, and a transfer_to call, successful
\* or not, changes no balance.
C19_Frame ==
    [][LET Others(n) ==
              \A m \in Names \ {n} :
                 /\ m \in DOMAIN AnsOf' <=> m \in DOMAIN AnsOf
                 /\ m \in DOMAIN AnsOf => AnsOf'[m] = AnsOf[m]
           c == last'.who
       IN
       \* for every name n: the step is not a call on n, or it leaves the
       \* other names alone
       /\ last'.op = "reserve" =>
             \A n \in Names : Others(n) \/ ~reserve(c, n)
       /\ last'.op = "transfer_to" =>
             /\ \A n \in Names, to \in Accounts :
                   Others(n) \/ ~transfer_to(c, n, to)
             /\ balances' = balances]_vars

\* One of two registered names has just been transferred by an owner who
\* could have paid a non-zero fee.
C19_Witness ==
    /\ last.op = "transfer_to"
    /\ last.result = "Ok"
    /\ Cardinality(DOMAIN AnsOf) = 2
    /\ Len(events) = 3
    /\ ReservationFee > 0
    /\ balances[last.who] >= ReservationFee
    /\ Last(events).to # Last(events).from

\* C20: replaying the emitted events in order from the empty map yields
\* the current registry, and the `from` of every Transferred event is the
\* owner of its name in the replay of the events before it.
C20_EventsDetermineRegistry ==
    /\ Replay(events) = AnsOf
    /\ \A i \in 1..Len(events) :
          events[i].kind = "Transferred" =>
             LET before == Replay(SubSeq(events, 1, i - 1)) IN
             /\ events[i].name \in DOMAIN before
             /\ before[events[i].name] = events[i].from

\* A name was reserved, handed to another account and a second name was
\* reserved after that.
C20_Witness ==
    /\ Len(events) = 3
    /\ events[2].kind = "Transferred"
    /\ events[2].to # events[2].from
    /\ events[3].kind = "Reserved"
    /\ Cardinality(DOMAIN AnsOf) = 2
====
